---- MODULE Spec2Model ----
(***************************************************************************)
(* Model of the concurrent banking simulation: Account (balance + lock),   *)
(* the two lock acquisition disciplines Phase1Bank (arrival order) and     *)
(* Phase2Bank (sorted by account id), and TransactionSimulator, which runs *)
(* a batch of transfers on a ThreadPoolExecutor and waits for the futures  *)
(* with a timeout.                                                         *)
(*                                                                         *)
(* One task per entry of transfers_data; pc[t] is the position of          *)
(* transfer_task(t) inside transfer_task / Bank.transfer, hpc the position *)
(* of the main thread inside TransactionSimulator.run.                     *)
(***************************************************************************)
EXTENDS Integers, Sequences, FiniteSets, TLC

\* ---------------------------------------------------------------- bounds
NumAccounts == 2        \* accounts 1..NumAccounts are in accounts_data
MaxRequests == 2        \* longest batch transfers_data
InitialBalance == 1     \* initial_balance of every account
MaxCalls == 2           \* most threads calling Account methods directly

\* ThreadPoolExecutor worker cap, simulator.py:169
WorkerCap == 20

AccountIds == 1..NumAccounts
\* an id the bank does not know
UnknownId == NumAccounts + 1
RequestIds == AccountIds \cup {UnknownId}
\* negative, zero, below / equal to / above the initial balance
Amounts == (-1)..(InitialBalance + 1)
Requests == [from : RequestIds, to : RequestIds, amount : Amounts]

Free == 0               \* a threading.Lock nobody holds
NoError == "None"       \* error_message = None

Phase1 == "Phase1Bank"
Phase2 == "Phase2Bank"

VARIABLES
    bank_class,         \* self.bank_class
    timeout_generous,   \* self.timeout_seconds outlasts every running worker
    transfers_data,     \* self.transfers_data
    accounts,           \* keys of Bank.accounts
    balance,            \* Account._balance, per account id
    lock,               \* Account.lock, per account id: holder or Free
    pc,                 \* per task: position in transfer_task / transfer
    current_balance,    \* per task: local current_balance of transfer
    success,            \* per task: local success of transfer_task
    error_message,      \* per task: local error_message of transfer_task
    calls,              \* per task: number of times bank.transfer was entered
    transactions,       \* self.transactions
    transactions_lock,  \* self.transactions_lock: holder or Free
    hpc,                \* position of the main thread in run()
    idx,                \* loop index of the main thread
    acc,                \* running sum inside get_total_balance
    initial_balance,    \* local initial_balance of run
    final_balance,      \* local final_balance of run
    pending_exc,        \* FuturesTimeoutError propagating out of the with block
    deadlocked,         \* local deadlocked of run
    successful,         \* local successful of run
    failed,             \* local failed of run
    metrics,            \* value returned by run, or NoMetrics
    account_calls,      \* calls of Account methods made by other threads
    cpc,                \* per call: position in deposit / withdraw / get_balance
    observed,           \* per call: the value of self._balance it read
    call_error          \* per call: the exception it raised, or NoError

vars == <<bank_class, timeout_generous, transfers_data, accounts, balance, lock, pc,
          current_balance, success, error_message, calls, transactions,
          transactions_lock, hpc, idx, acc, initial_balance, final_balance,
          pending_exc, deadlocked, successful, failed, metrics,
          account_calls, cpc, observed, call_error>>

bankVars == <<balance, lock>>
taskVars == <<pc, current_balance, success, error_message, calls>>
logVars == <<transactions, transactions_lock>>
configVars == <<bank_class, timeout_generous, transfers_data, accounts>>
harnessVars == <<hpc, idx, acc, initial_balance, final_balance, pending_exc,
                 deadlocked, successful, failed, metrics>>
callVars == <<account_calls, cpc, observed, call_error>>

NoMetrics == [total_transfers |-> -1]

Tasks == 1..Len(transfers_data)

Min(a, b) == IF a < b THEN a ELSE b

RECURSIVE SumOver(_, _)
SumOver(f, S) ==
    IF S = {} THEN 0
    ELSE LET x == CHOOSE y \in S : TRUE IN f[x] + SumOver(f, S \ {x})

\* ------------------------------------------------------------ Bank
\* Bank.get_account: the id is a key of self.accounts
KnownAccount(id) == id \in accounts

\* mutant: the pair is returned as given, not sorted by id
GetOrderedAccountsUnsorted(account1, account2) == <<account1, account2>>

\* mutant: the comparison is reversed (> instead of <)
GetOrderedAccountsDescending(account1, account2) ==
    IF account1 > account2 THEN <<account1, account2>>
    ELSE <<account2, account1>>

\* Phase2Bank._get_ordered_accounts
GetOrderedAccounts(account1, account2) ==
    IF account1 < account2 THEN <<account1, account2>>
    ELSE <<account2, account1>>

\* mutant: the destination is locked first, then the source
ArrivalOrderReversed(from_account, to_account) == <<to_account, from_account>>

\* Phase1Bank.transfer locks from_account then to_account
ArrivalOrder(from_account, to_account) == <<from_account, to_account>>

\* mutant: both disciplines lock the source first, then the destination
LockOrderByDirection(t) ==
    LET r == transfers_data[t] IN ArrivalOrder(r.from, r.to)

\* the (first, second) lock order of the transfer of task t
LockOrder(t) ==
    LET r == transfers_data[t] IN
    IF bank_class = Phase2 THEN GetOrderedAccounts(r.from, r.to)
    ELSE ArrivalOrder(r.from, r.to)

FirstAccount(t) == LockOrder(t)[1]
SecondAccount(t) == LockOrder(t)[2]

\* mutant: the accounts are looked up before the other checks
ValidationErrorLookupFirst(r) ==
    IF ~KnownAccount(r.from) \/ ~KnownAccount(r.to) THEN "Account not found"
    ELSE IF r.from = r.to THEN "Cannot transfer to the same account"
    ELSE IF r.amount <= 0 THEN "Transfer amount must be positive"
    ELSE NoError

\* mutant: a transfer from an account to itself is not rejected
ValidationErrorSameAccountAccepted(r) ==
    IF r.amount <= 0 THEN "Transfer amount must be positive"
    ELSE IF ~KnownAccount(r.from) \/ ~KnownAccount(r.to) THEN "Account not found"
    ELSE NoError

\* mutant: only negative amounts are rejected (< instead of <=)
ValidationErrorZeroAccepted(r) ==
    IF r.from = r.to THEN "Cannot transfer to the same account"
    ELSE IF r.amount < 0 THEN "Transfer amount must be positive"
    ELSE IF ~KnownAccount(r.from) \/ ~KnownAccount(r.to) THEN "Account not found"
    ELSE NoError

\* outcome of the checks made before any lock is requested
ValidationError(r) ==
    IF r.from = r.to THEN "Cannot transfer to the same account"
    ELSE IF r.amount <= 0 THEN "Transfer amount must be positive"
    ELSE IF ~KnownAccount(r.from) \/ ~KnownAccount(r.to) THEN "Account not found"
    ELSE NoError

InsufficientFunds == "Insufficient funds"

\* ------------------------------------------------------------ Init
\* transfers between two accounts of the bank for the whole initial balance
UnitTransfers ==
    {r \in Requests : /\ r.from \in AccountIds /\ r.to \in AccountIds
                      /\ r.from # r.to /\ r.amount = InitialBalance}

\* one request per error raised before locking
RejectedTransfers ==
    {[from |-> 1, to |-> 1, amount |-> InitialBalance],
     [from |-> 1, to |-> NumAccounts, amount |-> 0],
     [from |-> 1, to |-> UnknownId, amount |-> InitialBalance]}

\* batches run by the simulator: the empty batch, every single request, and
\* every longer batch of unit transfers and rejected transfers
Batches ==
    {<<>>} \cup [1..1 -> Requests]
           \cup UNION {[1..n -> UnitTransfers \cup RejectedTransfers] : n \in 2..MaxRequests}

\* state after TransactionSimulator.__init__, at the entry of run(); the
\* accounts and the bank are those run() creates from accounts_data
InitRun ==
    /\ bank_class \in {Phase1, Phase2}
    /\ timeout_generous \in BOOLEAN
    /\ accounts = AccountIds
    /\ balance = [a \in AccountIds |-> InitialBalance]
    /\ lock = [a \in AccountIds |-> Free]
    /\ pc = [t \in Tasks |-> "pending"]
    /\ current_balance = [t \in Tasks |-> 0]
    /\ success = [t \in Tasks |-> FALSE]
    /\ error_message = [t \in Tasks |-> NoError]
    /\ calls = [t \in Tasks |-> 0]
    /\ transactions = <<>>
    /\ transactions_lock = Free
    /\ hpc = "initial_balance"
    /\ idx = 1
    /\ acc = 0
    /\ initial_balance = 0
    /\ final_balance = 0
    /\ pending_exc = FALSE
    /\ deadlocked = FALSE
    /\ successful = 0
    /\ failed = 0
    /\ metrics = NoMetrics
    /\ account_calls = <<>>
    /\ cpc = <<>>
    /\ observed = <<>>
    /\ call_error = <<>>

Init ==
    /\ transfers_data \in Batches
    /\ InitRun

\* ------------------------------------------------------------ worker tasks
\* number of work items a pool thread is executing
Running == Cardinality({t \in Tasks : pc[t] \notin {"pending", "queued", "done"}})

\* mutant: one pool thread per request, without the cap
MaxWorkersUncapped == Len(transfers_data)

\* max_workers = min(len(self.transfers_data), 20)
MaxWorkers == Min(Len(transfers_data), WorkerCap)

\* a pool thread may take the oldest work item off the queue
CanStart(t) ==
    /\ t \in Tasks
    /\ pc[t] = "queued"
    /\ \A u \in Tasks : u < t => pc[u] \notin {"pending", "queued"}
    /\ Running < MaxWorkers

\* mutant: the KeyError of get_account is not caught by transfer_task, which
\* ends without a record
StartTransferKeyErrorEscapes(t) ==
    /\ CanStart(t)
    /\ LET e == ValidationError(transfers_data[t]) IN
        IF e = NoError
        THEN /\ pc' = [pc EXCEPT ![t] = "acquire_first"]
             /\ UNCHANGED error_message
        ELSE /\ pc' = [pc EXCEPT ![t] = IF e = "Account not found" THEN "done" ELSE "record"]
             /\ error_message' = [error_message EXCEPT ![t] = e]
    /\ calls' = [calls EXCEPT ![t] = @ + 1]
    /\ UNCHANGED <<current_balance, success>>
    /\ UNCHANGED <<bankVars, logVars, configVars, callVars, harnessVars>>

\* a pool thread runs transfer_task(t), which enters bank.transfer: the
\* checks made before locking
StartTransfer(t) ==
    /\ CanStart(t)
    /\ LET e == ValidationError(transfers_data[t]) IN
        IF e = NoError
        THEN /\ pc' = [pc EXCEPT ![t] = "acquire_first"]
             /\ UNCHANGED error_message
        ELSE /\ pc' = [pc EXCEPT ![t] = "record"]
             /\ error_message' = [error_message EXCEPT ![t] = e]
    /\ calls' = [calls EXCEPT ![t] = @ + 1]
    /\ UNCHANGED <<current_balance, success>>
    /\ UNCHANGED <<bankVars, logVars, configVars, callVars, harnessVars>>

\* mutant: the funds are checked as soon as the source lock is held
AcquireFirstChecksFunds(t) ==
    /\ t \in Tasks
    /\ pc[t] = "acquire_first"
    /\ lock[FirstAccount(t)] = Free
    /\ lock' = [lock EXCEPT ![FirstAccount(t)] = t]
    /\ LET r == transfers_data[t] IN
        IF FirstAccount(t) = r.from /\ balance[r.from] < r.amount
        THEN /\ error_message' = [error_message EXCEPT ![t] = InsufficientFunds]
             /\ pc' = [pc EXCEPT ![t] = "release_first"]
        ELSE /\ pc' = [pc EXCEPT ![t] = "acquire_second"]
             /\ UNCHANGED error_message
    /\ UNCHANGED <<balance, current_balance, success, calls>>
    /\ UNCHANGED <<logVars, configVars, callVars, harnessVars>>

\* mutant: the first lock is taken without waiting for its holder
AcquireFirstNoWait(t) ==
    /\ t \in Tasks
    /\ pc[t] = "acquire_first"
    /\ lock' = [lock EXCEPT ![FirstAccount(t)] = t]
    /\ pc' = [pc EXCEPT ![t] = "acquire_second"]
    /\ UNCHANGED <<balance, current_balance, success, error_message, calls>>
    /\ UNCHANGED <<logVars, configVars, callVars, harnessVars>>

AcquireFirst(t) ==
    /\ t \in Tasks
    /\ pc[t] = "acquire_first"
    /\ lock[FirstAccount(t)] = Free
    /\ lock' = [lock EXCEPT ![FirstAccount(t)] = t]
    /\ pc' = [pc EXCEPT ![t] = "acquire_second"]
    /\ UNCHANGED <<balance, current_balance, success, error_message, calls>>
    /\ UNCHANGED <<logVars, configVars, callVars, harnessVars>>

\* mutant: the second lock is taken without waiting for its holder
AcquireSecondNoWait(t) ==
    /\ t \in Tasks
    /\ pc[t] = "acquire_second"
    /\ lock' = [lock EXCEPT ![SecondAccount(t)] = t]
    /\ pc' = [pc EXCEPT ![t] = "check"]
    /\ UNCHANGED <<balance, current_balance, success, error_message, calls>>
    /\ UNCHANGED <<logVars, configVars, callVars, harnessVars>>

AcquireSecond(t) ==
    /\ t \in Tasks
    /\ pc[t] = "acquire_second"
    /\ lock[SecondAccount(t)] = Free
    /\ lock' = [lock EXCEPT ![SecondAccount(t)] = t]
    /\ pc' = [pc EXCEPT ![t] = "check"]
    /\ UNCHANGED <<balance, current_balance, success, error_message, calls>>
    /\ UNCHANGED <<logVars, configVars, callVars, harnessVars>>

\* mutant: a transfer of the whole balance is refused (<= instead of <)
CheckFundsStrict(t) ==
    /\ t \in Tasks
    /\ pc[t] = "check"
    /\ LET r == transfers_data[t] IN
        /\ current_balance' = [current_balance EXCEPT ![t] = balance[r.from]]
        /\ IF balance[r.from] <= r.amount
           THEN /\ error_message' = [error_message EXCEPT ![t] = InsufficientFunds]
                /\ pc' = [pc EXCEPT ![t] = "release_second"]
           ELSE /\ pc' = [pc EXCEPT ![t] = "debit"]
                /\ UNCHANGED error_message
    /\ UNCHANGED <<success, calls, bankVars, logVars, configVars, callVars, harnessVars>>

\* current_balance = from_account._balance; raise if current_balance < amount
CheckFunds(t) ==
    /\ t \in Tasks
    /\ pc[t] = "check"
    /\ LET r == transfers_data[t] IN
        /\ current_balance' = [current_balance EXCEPT ![t] = balance[r.from]]
        /\ IF balance[r.from] < r.amount
           THEN /\ error_message' = [error_message EXCEPT ![t] = InsufficientFunds]
                /\ pc' = [pc EXCEPT ![t] = "release_second"]
           ELSE /\ pc' = [pc EXCEPT ![t] = "debit"]
                /\ UNCHANGED error_message
    /\ UNCHANGED <<success, calls, bankVars, logVars, configVars, callVars, harnessVars>>
\* mutant: the debit is applied to the first locked account, not the source
DebitFirstLocked(t) ==
    /\ t \in Tasks
    /\ pc[t] = "debit"
    /\ LET r == transfers_data[t] IN
        balance' = [balance EXCEPT ![FirstAccount(t)] = @ - r.amount]
    /\ pc' = [pc EXCEPT ![t] = "credit"]
    /\ UNCHANGED <<lock, current_balance, success, error_message, calls>>
    /\ UNCHANGED <<logVars, configVars, callVars, harnessVars>>

\* from_account._balance -= amount
Debit(t) ==
    /\ t \in Tasks
    /\ pc[t] = "debit"
    /\ LET r == transfers_data[t] IN
        balance' = [balance EXCEPT ![r.from] = @ - r.amount]
    /\ pc' = [pc EXCEPT ![t] = "credit"]
    /\ UNCHANGED <<lock, current_balance, success, error_message, calls>>
    /\ UNCHANGED <<logVars, configVars, callVars, harnessVars>>

\* mutant: the destination balance is overwritten (= instead of +=)
CreditOverwrite(t) ==
    /\ t \in Tasks
    /\ pc[t] = "credit"
    /\ LET r == transfers_data[t] IN
        balance' = [balance EXCEPT ![r.to] = r.amount]
    /\ pc' = [pc EXCEPT ![t] = "release_second"]
    /\ UNCHANGED <<lock, current_balance, success, error_message, calls>>
    /\ UNCHANGED <<logVars, configVars, callVars, harnessVars>>

\* mutant: the credit is applied to the second locked account, not the
\* destination
CreditSecondLocked(t) ==
    /\ t \in Tasks
    /\ pc[t] = "credit"
    /\ LET r == transfers_data[t] IN
        balance' = [balance EXCEPT ![SecondAccount(t)] = @ + r.amount]
    /\ pc' = [pc EXCEPT ![t] = "release_second"]
    /\ UNCHANGED <<lock, current_balance, success, error_message, calls>>
    /\ UNCHANGED <<logVars, configVars, callVars, harnessVars>>

\* to_account._balance += amount
Credit(t) ==
    /\ t \in Tasks
    /\ pc[t] = "credit"
    /\ LET r == transfers_data[t] IN
        balance' = [balance EXCEPT ![r.to] = @ + r.amount]
    /\ pc' = [pc EXCEPT ![t] = "release_second"]
    /\ UNCHANGED <<lock, current_balance, success, error_message, calls>>
    /\ UNCHANGED <<logVars, configVars, callVars, harnessVars>>

\* mutant: the inner finally releases the lock acquired first
ReleaseSecondFreesFirst(t) ==
    /\ t \in Tasks
    /\ pc[t] = "release_second"
    /\ lock' = [lock EXCEPT ![FirstAccount(t)] = Free]
    /\ pc' = [pc EXCEPT ![t] = "release_first"]
    /\ UNCHANGED <<balance, current_balance, success, error_message, calls>>
    /\ UNCHANGED <<logVars, configVars, callVars, harnessVars>>

\* inner finally
ReleaseSecond(t) ==
    /\ t \in Tasks
    /\ pc[t] = "release_second"
    /\ lock' = [lock EXCEPT ![SecondAccount(t)] = Free]
    /\ pc' = [pc EXCEPT ![t] = "release_first"]
    /\ UNCHANGED <<balance, current_balance, success, error_message, calls>>
    /\ UNCHANGED <<logVars, configVars, callVars, harnessVars>>

\* mutant: the first lock is released on the success path only
ReleaseFirstOnSuccessOnly(t) ==
    /\ t \in Tasks
    /\ pc[t] = "release_first"
    /\ lock' = IF error_message[t] = NoError
               THEN [lock EXCEPT ![FirstAccount(t)] = Free]
               ELSE lock
    /\ pc' = [pc EXCEPT ![t] = "record"]
    /\ UNCHANGED <<balance, current_balance, success, error_message, calls>>
    /\ UNCHANGED <<logVars, configVars, callVars, harnessVars>>

\* outer finally; transfer then returns (success = True) or the exception
\* reaches the except clause of transfer_task
ReleaseFirst(t) ==
    /\ t \in Tasks
    /\ pc[t] = "release_first"
    /\ lock' = [lock EXCEPT ![FirstAccount(t)] = Free]
    /\ pc' = [pc EXCEPT ![t] = "record"]
    /\ UNCHANGED <<balance, current_balance, success, error_message, calls>>
    /\ UNCHANGED <<logVars, configVars, callVars, harnessVars>>

\* success = True after a normal return; the Transaction is built and
\* transactions_lock is acquired
Record(t) ==
    /\ t \in Tasks
    /\ pc[t] = "record"
    /\ transactions_lock = Free
    /\ transactions_lock' = t
    /\ success' = [success EXCEPT ![t] = (error_message[t] = NoError)]
    /\ pc' = [pc EXCEPT ![t] = "append"]
    /\ UNCHANGED <<current_balance, error_message, calls, transactions>>
    /\ UNCHANGED <<bankVars, configVars, callVars, harnessVars>>

NewTransaction(t) ==
    [task |-> t,
     from_account_id |-> transfers_data[t].from,
     to_account_id |-> transfers_data[t].to,
     amount |-> transfers_data[t].amount,
     success |-> success[t],
     error_message |-> error_message[t]]

\* mutant: the record is stored over the last record of the log
AppendTransactionOverLast(t) ==
    /\ t \in Tasks
    /\ pc[t] = "append"
    /\ transactions' =
          IF transactions = <<>> THEN <<NewTransaction(t)>>
          ELSE [transactions EXCEPT ![Len(transactions)] = NewTransaction(t)]
    /\ transactions_lock' = Free
    /\ pc' = [pc EXCEPT ![t] = "done"]
    /\ UNCHANGED <<current_balance, success, error_message, calls>>
    /\ UNCHANGED <<bankVars, configVars, callVars, harnessVars>>

\* mutant: the record is appended twice
AppendTransactionTwice(t) ==
    /\ t \in Tasks
    /\ pc[t] = "append"
    /\ transactions' = Append(Append(transactions, NewTransaction(t)), NewTransaction(t))
    /\ transactions_lock' = Free
    /\ pc' = [pc EXCEPT ![t] = "done"]
    /\ UNCHANGED <<current_balance, success, error_message, calls>>
    /\ UNCHANGED <<bankVars, configVars, callVars, harnessVars>>

\* self.transactions.append(transaction); the with block releases the lock
AppendTransaction(t) ==
    /\ t \in Tasks
    /\ pc[t] = "append"
    /\ transactions' = Append(transactions, NewTransaction(t))
    /\ transactions_lock' = Free
    /\ pc' = [pc EXCEPT ![t] = "done"]
    /\ UNCHANGED <<current_balance, success, error_message, calls>>
    /\ UNCHANGED <<bankVars, configVars, callVars, harnessVars>>

TaskStep(t) ==
    \/ StartTransfer(t)
    \/ AcquireFirst(t)
    \/ AcquireSecond(t)
    \/ CheckFunds(t)
    \/ Debit(t)
    \/ Credit(t)
    \/ ReleaseSecond(t)
    \/ ReleaseFirst(t)
    \/ Record(t)
    \/ AppendTransaction(t)

\* task t can take a step now
CanStep(t) ==
    CASE pc[t] \in {"pending", "done"} -> FALSE
      [] pc[t] = "queued" -> CanStart(t)
      [] pc[t] = "acquire_first" -> lock[FirstAccount(t)] = Free
      [] pc[t] = "acquire_second" -> lock[SecondAccount(t)] = Free
      [] pc[t] = "record" -> transactions_lock = Free
      [] OTHER -> TRUE

\* ------------------------------------------------------------ run()
\* Account.get_balance of account idx inside Bank.get_total_balance: the
\* account lock is taken, the balance read and the lock released
ReadBalance(next_hpc) ==
    /\ lock[idx] = Free
    /\ IF idx < Cardinality(accounts)
       THEN /\ acc' = acc + balance[idx]
            /\ idx' = idx + 1
            /\ UNCHANGED <<hpc, initial_balance, final_balance>>
       ELSE /\ acc' = 0
            /\ idx' = 1
            /\ hpc' = next_hpc
            /\ IF hpc = "initial_balance"
               THEN /\ initial_balance' = acc + balance[idx]
                    /\ UNCHANGED final_balance
               ELSE /\ final_balance' = acc + balance[idx]
                    /\ UNCHANGED initial_balance

\* initial_balance = bank.get_total_balance()
InitialBalanceStep ==
    /\ hpc = "initial_balance"
    /\ ReadBalance("executor")
    /\ UNCHANGED <<pending_exc, deadlocked, successful, failed, metrics>>
    /\ UNCHANGED <<bankVars, taskVars, logVars, configVars, callVars>>

\* ThreadPoolExecutor(max_workers=min(len(transfers_data), 20)): the
\* constructor raises ValueError when max_workers <= 0, and run does not
\* catch it
CreateExecutor ==
    /\ hpc = "executor"
    /\ hpc' = IF MaxWorkers <= 0 THEN "raised" ELSE "submit"
    /\ UNCHANGED <<idx, acc, initial_balance, final_balance, pending_exc,
                   deadlocked, successful, failed, metrics>>
    /\ UNCHANGED <<bankVars, taskVars, logVars, configVars, callVars>>

\* executor.submit(transfer_task, transfer) for the next transfer
Submit ==
    /\ hpc = "submit"
    /\ pc' = [pc EXCEPT ![idx] = "queued"]
    /\ IF idx < Len(transfers_data)
       THEN idx' = idx + 1 /\ UNCHANGED hpc
       ELSE idx' = 1 /\ hpc' = "wait"
    /\ UNCHANGED <<acc, initial_balance, final_balance, pending_exc,
                   deadlocked, successful, failed, metrics>>
    /\ UNCHANGED <<current_balance, success, error_message, calls>>
    /\ UNCHANGED <<bankVars, logVars, configVars, callVars>>

\* future.result(timeout=...) returns: the future is done
WaitFuture ==
    /\ hpc = "wait"
    /\ pc[idx] = "done"
    /\ IF idx < Len(transfers_data)
       THEN idx' = idx + 1 /\ UNCHANGED hpc
       ELSE idx' = 1 /\ hpc' = "shutdown"
    /\ UNCHANGED <<acc, initial_balance, final_balance, pending_exc,
                   deadlocked, successful, failed, metrics>>
    /\ UNCHANGED <<bankVars, taskVars, logVars, configVars, callVars>>

\* future.result(timeout=...) raises FuturesTimeoutError: the future is not
\* done when the timeout expires.  A generous timeout expires only once no
\* worker can take a step any more.
Timeout ==
    /\ hpc = "wait"
    /\ pc[idx] # "done"
    /\ timeout_generous => \A t \in Tasks : ~CanStep(t)
    /\ pending_exc' = TRUE
    /\ hpc' = "shutdown"
    /\ UNCHANGED <<idx, acc, initial_balance, final_balance,
                   deadlocked, successful, failed, metrics>>
    /\ UNCHANGED <<bankVars, taskVars, logVars, configVars, callVars>>

\* mutant: a failed transfer sets the deadlocked flag too
ExitExecutorFlagsFailures ==
    /\ hpc = "shutdown"
    /\ \A t \in Tasks : pc[t] = "done"
    /\ deadlocked' = (pending_exc
                        \/ \E i \in 1..Len(transactions) : ~transactions[i].success)
    /\ pending_exc' = FALSE
    /\ successful' = Cardinality({i \in 1..Len(transactions) : transactions[i].success})
    /\ failed' = Cardinality({i \in 1..Len(transactions) : ~transactions[i].success})
    /\ hpc' = "final_balance"
    /\ idx' = 1
    /\ UNCHANGED <<acc, initial_balance, final_balance, metrics>>
    /\ UNCHANGED <<bankVars, taskVars, logVars, configVars, callVars>>

\* mutant: the with block is left without joining the pool threads
ExitExecutorNoJoin ==
    /\ hpc = "shutdown"
    /\ deadlocked' = pending_exc
    /\ pending_exc' = FALSE
    /\ successful' = Cardinality({i \in 1..Len(transactions) : transactions[i].success})
    /\ failed' = Cardinality({i \in 1..Len(transactions) : ~transactions[i].success})
    /\ hpc' = "final_balance"
    /\ idx' = 1
    /\ UNCHANGED <<acc, initial_balance, final_balance, metrics>>
    /\ UNCHANGED <<bankVars, taskVars, logVars, configVars, callVars>>

\* mutant: every record is counted as successful
ExitExecutorCountsAll ==
    /\ hpc = "shutdown"
    /\ \A t \in Tasks : pc[t] = "done"
    /\ deadlocked' = pending_exc
    /\ pending_exc' = FALSE
    /\ successful' = Len(transactions)
    /\ failed' = Cardinality({i \in 1..Len(transactions) : ~transactions[i].success})
    /\ hpc' = "final_balance"
    /\ idx' = 1
    /\ UNCHANGED <<acc, initial_balance, final_balance, metrics>>
    /\ UNCHANGED <<bankVars, taskVars, logVars, configVars, callVars>>

\* the with block is left, normally or by the exception:
\* Executor.__exit__ calls shutdown(wait=True), which joins every pool
\* thread; the threads end when all submitted work items have run.  Then
\* the except clause sets deadlocked and the records are counted.
ExitExecutor ==
    /\ hpc = "shutdown"
    /\ \A t \in Tasks : pc[t] = "done"
    /\ deadlocked' = pending_exc
    /\ pending_exc' = FALSE
    /\ successful' = Cardinality({i \in 1..Len(transactions) : transactions[i].success})
    /\ failed' = Cardinality({i \in 1..Len(transactions) : ~transactions[i].success})
    /\ hpc' = "final_balance"
    /\ idx' = 1
    /\ UNCHANGED <<acc, initial_balance, final_balance, metrics>>
    /\ UNCHANGED <<bankVars, taskVars, logVars, configVars, callVars>>

\* final_balance = bank.get_total_balance()
FinalBalanceStep ==
    /\ hpc = "final_balance"
    /\ ReadBalance("metrics")
    /\ UNCHANGED <<pending_exc, deadlocked, successful, failed, metrics>>
    /\ UNCHANGED <<bankVars, taskVars, logVars, configVars, callVars>>

\* metrics = SimulationMetrics(...); return metrics.  The transactions
\* field is the list self.transactions itself, not a copy.
BuildMetrics ==
    /\ hpc = "metrics"
    /\ metrics' = [total_transfers |-> Len(transfers_data),
                   successful_transfers |-> successful,
                   failed_transfers |-> failed,
                   deadlocked |-> deadlocked]
    /\ hpc' = "returned"
    /\ UNCHANGED <<idx, acc, initial_balance, final_balance, pending_exc,
                   deadlocked, successful, failed>>
    /\ UNCHANGED <<bankVars, taskVars, logVars, configVars, callVars>>

\* SimulationMetrics.success_rate: (successful / total) * 100 as the
\* fraction num / den, 0 when there are no transfers; the rounding of the
\* float division is not modelled
success_rate(m) ==
    IF m.total_transfers = 0 THEN [num |-> 0, den |-> 1]
    ELSE [num |-> m.successful_transfers * 100, den |-> m.total_transfers]

HarnessStep ==
    \/ InitialBalanceStep
    \/ CreateExecutor
    \/ Submit
    \/ WaitFuture
    \/ Timeout
    \/ ExitExecutor
    \/ FinalBalanceStep
    \/ BuildMetrics

\* --------------------------------------------------------- Account methods
\* Threads that call Account.deposit, Account.withdraw and
\* Account.get_balance directly, beside the workers of the pool. cpc[c] is
\* the position of caller c inside the method it calls.
AccountCallSet ==
    [op : {"deposit", "withdraw"}, account : AccountIds, amount : Amounts]
      \cup [op : {"get_balance"}, account : AccountIds, amount : {0}]

\* calls on the first account: deposit and withdraw of the unit amount, and
\* get_balance
UnitCalls ==
    {k \in AccountCallSet :
        /\ k.account = 1
        /\ k.op \in {"deposit", "withdraw"} => k.amount = InitialBalance}

\* the calls made concurrently: none, every single call, and every longer
\* batch of unit calls
CallBatches ==
    {<<>>} \cup [1..1 -> AccountCallSet]
           \cup UNION {[1..n -> UnitCalls] : n \in 2..MaxCalls}

\* two unit transfers between the same accounts in opposite directions
OpposingTransfers ==
    {<<r, [from |-> r.to, to |-> r.from, amount |-> r.amount]>> : r \in UnitTransfers}

\* the transfers and the calls that run side by side: at most one unit
\* transfer beside any batch of calls, or two opposing transfers beside at
\* most one unit call
Scenarios ==
    (({<<>>} \cup [1..1 -> UnitTransfers]) \X CallBatches)
      \cup (OpposingTransfers \X ({<<>>} \cup [1..1 -> UnitCalls]))

\* two more accounts, and two unit transfers on disjoint pairs of accounts:
\* one between the first two accounts, one between the two extra accounts
ExtraAccountIds == 1..(NumAccounts + 2)
DisjointTransfers ==
    <<[from |-> 1, to |-> 2, amount |-> InitialBalance],
      [from |-> NumAccounts + 1, to |-> NumAccounts + 2, amount |-> InitialBalance]>>

\* balance every account is created with: the unit amount, or one unit for
\* each caller
OpeningBalances == {InitialBalance, MaxCalls * InitialBalance}

Callers == 1..Len(account_calls)

\* identity under which caller c holds an account lock
Holder(c) == 0 - c

\* the accounts exist, the workers of the pool have their work items and
\* the callers are about to call; the main thread waits for all of them
AccountInit ==
    /\ bank_class \in {Phase1, Phase2}
    /\ timeout_generous = TRUE
    /\ \E sc \in Scenarios \cup {<<DisjointTransfers, <<>>>>} :
          /\ transfers_data = sc[1]
          /\ account_calls = sc[2]
    /\ accounts = (IF transfers_data = DisjointTransfers THEN ExtraAccountIds
                   ELSE AccountIds)
    /\ \E b \in OpeningBalances :
          /\ balance = [a \in accounts |-> b]
          /\ initial_balance = Cardinality(accounts) * b
    /\ lock = [a \in accounts |-> Free]
    /\ pc = [t \in Tasks |-> "queued"]
    /\ current_balance = [t \in Tasks |-> 0]
    /\ success = [t \in Tasks |-> FALSE]
    /\ error_message = [t \in Tasks |-> NoError]
    /\ calls = [t \in Tasks |-> 0]
    /\ transactions = <<>>
    /\ transactions_lock = Free
    /\ hpc = "wait"
    /\ idx = 1
    /\ acc = 0
    /\ final_balance = 0
    /\ pending_exc = FALSE
    /\ deadlocked = FALSE
    /\ successful = 0
    /\ failed = 0
    /\ metrics = NoMetrics
    /\ cpc = [c \in Callers |->
                IF account_calls[c].op = "get_balance" THEN "acquire" ELSE "check"]
    /\ observed = [c \in Callers |-> 0]
    /\ call_error = [c \in Callers |-> NoError]

\* if amount < 0: raise ValueError("Deposit amount must be positive")
DepositCheck(c) ==
    /\ c \in Callers
    /\ account_calls[c].op = "deposit"
    /\ cpc[c] = "check"
    /\ IF account_calls[c].amount < 0
       THEN /\ call_error' = [call_error EXCEPT ![c] = "Deposit amount must be positive"]
            /\ cpc' = [cpc EXCEPT ![c] = "done"]
       ELSE /\ cpc' = [cpc EXCEPT ![c] = "acquire"]
            /\ UNCHANGED call_error
    /\ UNCHANGED <<account_calls, observed>>
    /\ UNCHANGED <<bankVars, taskVars, logVars, configVars, harnessVars>>

\* if amount < 0: raise ValueError("Withdrawal amount must be positive")
WithdrawCheck(c) ==
    /\ c \in Callers
    /\ account_calls[c].op = "withdraw"
    /\ cpc[c] = "check"
    /\ IF account_calls[c].amount < 0
       THEN /\ call_error' = [call_error EXCEPT ![c] = "Withdrawal amount must be positive"]
            /\ cpc' = [cpc EXCEPT ![c] = "done"]
       ELSE /\ cpc' = [cpc EXCEPT ![c] = "acquire"]
            /\ UNCHANGED call_error
    /\ UNCHANGED <<account_calls, observed>>
    /\ UNCHANGED <<bankVars, taskVars, logVars, configVars, harnessVars>>

\* mutant: the method body is entered without waiting for the lock holder
AcquireAccountLockNoWait(c) ==
    /\ c \in Callers
    /\ cpc[c] = "acquire"
    /\ lock' = [lock EXCEPT ![account_calls[c].account] = Holder(c)]
    /\ cpc' = [cpc EXCEPT ![c] = "read"]
    /\ UNCHANGED <<balance, account_calls, observed, call_error>>
    /\ UNCHANGED <<taskVars, logVars, configVars, harnessVars>>

\* with self.lock: entry, in deposit, withdraw and get_balance
AcquireAccountLock(c) ==
    /\ c \in Callers
    /\ cpc[c] = "acquire"
    /\ lock[account_calls[c].account] = Free
    /\ lock' = [lock EXCEPT ![account_calls[c].account] = Holder(c)]
    /\ cpc' = [cpc EXCEPT ![c] = "read"]
    /\ UNCHANGED <<balance, account_calls, observed, call_error>>
    /\ UNCHANGED <<taskVars, logVars, configVars, harnessVars>>

\* mutant: the lock is released after the read, before the store
DepositReadReleasesLock(c) ==
    /\ c \in Callers
    /\ account_calls[c].op = "deposit"
    /\ cpc[c] = "read"
    /\ observed' = [observed EXCEPT ![c] = balance[account_calls[c].account]]
    /\ lock' = [lock EXCEPT ![account_calls[c].account] = Free]
    /\ cpc' = [cpc EXCEPT ![c] = "write"]
    /\ UNCHANGED <<balance, account_calls, call_error>>
    /\ UNCHANGED <<taskVars, logVars, configVars, harnessVars>>

\* self._balance += amount, the read of self._balance
DepositRead(c) ==
    /\ c \in Callers
    /\ account_calls[c].op = "deposit"
    /\ cpc[c] = "read"
    /\ observed' = [observed EXCEPT ![c] = balance[account_calls[c].account]]
    /\ cpc' = [cpc EXCEPT ![c] = "write"]
    /\ UNCHANGED <<account_calls, call_error>>
    /\ UNCHANGED <<bankVars, taskVars, logVars, configVars, harnessVars>>

\* self._balance += amount, the store, and the exit of the with block
DepositWrite(c) ==
    /\ c \in Callers
    /\ account_calls[c].op = "deposit"
    /\ cpc[c] = "write"
    /\ LET k == account_calls[c] IN
        /\ balance' = [balance EXCEPT ![k.account] = observed[c] + k.amount]
        /\ lock' = [lock EXCEPT ![k.account] = Free]
    /\ cpc' = [cpc EXCEPT ![c] = "done"]
    /\ UNCHANGED <<account_calls, observed, call_error>>
    /\ UNCHANGED <<taskVars, logVars, configVars, harnessVars>>

\* mutant: the funds are not checked
WithdrawReadUnchecked(c) ==
    /\ c \in Callers
    /\ account_calls[c].op = "withdraw"
    /\ cpc[c] = "read"
    /\ observed' = [observed EXCEPT ![c] = balance[account_calls[c].account]]
    /\ cpc' = [cpc EXCEPT ![c] = "write"]
    /\ UNCHANGED <<account_calls, call_error>>
    /\ UNCHANGED <<bankVars, taskVars, logVars, configVars, harnessVars>>

\* mutant: a withdrawal of the whole balance is refused (<= instead of <)
WithdrawReadStrict(c) ==
    /\ c \in Callers
    /\ account_calls[c].op = "withdraw"
    /\ cpc[c] = "read"
    /\ LET k == account_calls[c] IN
        /\ observed' = [observed EXCEPT ![c] = balance[k.account]]
        /\ IF balance[k.account] <= k.amount
           THEN /\ call_error' = [call_error EXCEPT ![c] = InsufficientFunds]
                /\ lock' = [lock EXCEPT ![k.account] = Free]
                /\ cpc' = [cpc EXCEPT ![c] = "done"]
           ELSE /\ cpc' = [cpc EXCEPT ![c] = "write"]
                /\ UNCHANGED <<lock, call_error>>
    /\ UNCHANGED <<balance, account_calls>>
    /\ UNCHANGED <<taskVars, logVars, configVars, harnessVars>>

\* if self._balance < amount: raise ValueError("Insufficient funds"), the
\* raise leaving the with block; else the read of self._balance -= amount,
\* which finds the value just compared, the lock being held
WithdrawRead(c) ==
    /\ c \in Callers
    /\ account_calls[c].op = "withdraw"
    /\ cpc[c] = "read"
    /\ LET k == account_calls[c] IN
        /\ observed' = [observed EXCEPT ![c] = balance[k.account]]
        /\ IF balance[k.account] < k.amount
           THEN /\ call_error' = [call_error EXCEPT ![c] = InsufficientFunds]
                /\ lock' = [lock EXCEPT ![k.account] = Free]
                /\ cpc' = [cpc EXCEPT ![c] = "done"]
           ELSE /\ cpc' = [cpc EXCEPT ![c] = "write"]
                /\ UNCHANGED <<lock, call_error>>
    /\ UNCHANGED <<balance, account_calls>>
    /\ UNCHANGED <<taskVars, logVars, configVars, harnessVars>>

\* self._balance -= amount, the store, and the exit of the with block
WithdrawWrite(c) ==
    /\ c \in Callers
    /\ account_calls[c].op = "withdraw"
    /\ cpc[c] = "write"
    /\ LET k == account_calls[c] IN
        /\ balance' = [balance EXCEPT ![k.account] = observed[c] - k.amount]
        /\ lock' = [lock EXCEPT ![k.account] = Free]
    /\ cpc' = [cpc EXCEPT ![c] = "done"]
    /\ UNCHANGED <<account_calls, observed, call_error>>
    /\ UNCHANGED <<taskVars, logVars, configVars, harnessVars>>

\* return self._balance, and the exit of the with block
GetBalanceReturn(c) ==
    /\ c \in Callers
    /\ account_calls[c].op = "get_balance"
    /\ cpc[c] = "read"
    /\ LET k == account_calls[c] IN
        /\ observed' = [observed EXCEPT ![c] = balance[k.account]]
        /\ lock' = [lock EXCEPT ![k.account] = Free]
    /\ cpc' = [cpc EXCEPT ![c] = "done"]
    /\ UNCHANGED <<balance, account_calls, call_error>>
    /\ UNCHANGED <<taskVars, logVars, configVars, harnessVars>>

CallStep(c) ==
    \/ DepositCheck(c)
    \/ WithdrawCheck(c)
    \/ AcquireAccountLock(c)
    \/ DepositRead(c)
    \/ DepositWrite(c)
    \/ WithdrawRead(c)
    \/ WithdrawWrite(c)
    \/ GetBalanceReturn(c)

\* -------------------------------------------------------- specifications
Next ==
    \/ \E t \in 1..MaxRequests : TaskStep(t)
    \/ HarnessStep

Spec == Init /\ [][Next]_vars

\* threads are scheduled fairly: a thread that can run eventually runs
Fairness ==
    /\ \A t \in 1..MaxRequests : WF_vars(TaskStep(t))
    /\ WF_vars(HarnessStep)

FairSpec == Spec /\ Fairness

\* ------------------------------------------- a batch beyond the worker cap
\* The first WorkerCap - 1 requests of a Phase1Bank batch: the opposing unit
\* transfers 1 -> 2 and 2 -> 1, then unit transfers 1 -> 2.
BlockedHead ==
    [t \in 1..(WorkerCap - 1) |->
        IF t = 2 THEN [from |-> 2, to |-> 1, amount |-> InitialBalance]
        ELSE [from |-> 1, to |-> 2, amount |-> InitialBalance]]

\* the requests that follow: rejected ones, or one more unit transfer 1 -> 2
TailRequests ==
    RejectedTransfers \cup {[from |-> 1, to |-> 2, amount |-> InitialBalance]}

LargeBatches == {BlockedHead \o tail : tail \in [1..MaxRequests -> TailRequests]}

\* run() waits for the futures of a large batch; the first two workers hold
\* the lock of their source account and wait for the other one, the workers
\* after them wait for the lock of account 1, and one pool thread is idle
PoolInit ==
    /\ bank_class = Phase1
    /\ timeout_generous \in BOOLEAN
    /\ transfers_data \in LargeBatches
    /\ accounts = AccountIds
    /\ balance = [a \in AccountIds |-> InitialBalance]
    /\ lock = [a \in AccountIds |-> IF a \in {1, 2} THEN a ELSE Free]
    /\ pc = [t \in Tasks |->
                IF t \in {1, 2} THEN "acquire_second"
                ELSE IF t < WorkerCap THEN "acquire_first"
                ELSE "queued"]
    /\ current_balance = [t \in Tasks |-> 0]
    /\ success = [t \in Tasks |-> FALSE]
    /\ error_message = [t \in Tasks |-> NoError]
    /\ calls = [t \in Tasks |-> IF t < WorkerCap THEN 1 ELSE 0]
    /\ transactions = <<>>
    /\ transactions_lock = Free
    /\ hpc = "wait"
    /\ idx = 1
    /\ acc = 0
    /\ initial_balance = NumAccounts * InitialBalance
    /\ final_balance = 0
    /\ pending_exc = FALSE
    /\ deadlocked = FALSE
    /\ successful = 0
    /\ failed = 0
    /\ metrics = NoMetrics
    /\ account_calls = <<>>
    /\ cpc = <<>>
    /\ observed = <<>>
    /\ call_error = <<>>

\* the steps that can still be taken: the idle pool thread runs the queued
\* requests, and the wait for the first future times out
PoolNext ==
    \/ \E t \in 1..(WorkerCap + MaxRequests) :
          \/ StartTransfer(t)
          \/ Record(t)
          \/ AppendTransaction(t)
    \/ Timeout

PoolSpec == PoolInit /\ [][PoolNext]_vars

\* the workers of the pool and the callers of the Account methods
AccountNext ==
    \/ \E t \in 1..MaxRequests : TaskStep(t)
    \/ \E c \in 1..MaxCalls : CallStep(c)

AccountSpec == AccountInit /\ [][AccountNext]_vars

\* ------------------------------------- transfers along a ring and a chain
\* one more transfer than a batch of the simulator holds, and one account
\* more than there are transfers
RingSize == MaxRequests + 1
RingAccountIds == 1..(RingSize + 1)

\* the account after account a on the ring 1, 2, ..., RingSize, 1
Successor(a) == (a % RingSize) + 1

\* the ring 1 -> 2, 2 -> 3, ..., RingSize -> 1 with every transfer in either
\* direction: transfer t moves the unit amount between account t and its
\* successor
RingOrientations ==
    {[t \in 1..RingSize |->
        IF t \in S
        THEN [from |-> Successor(t), to |-> t, amount |-> InitialBalance]
        ELSE [from |-> t, to |-> Successor(t), amount |-> InitialBalance]] :
     S \in SUBSET (1..RingSize)}

\* the chain 1 -> 2, 2 -> 3, ..., which ends at the extra account
Chain ==
    [t \in 1..RingSize |-> [from |-> t, to |-> t + 1, amount |-> InitialBalance]]

GraphBatches == RingOrientations \cup {Chain}

\* the accounts exist and every transfer has been submitted to the pool;
\* the main thread waits for the futures
GraphInit ==
    /\ bank_class \in {Phase1, Phase2}
    /\ timeout_generous = TRUE
    /\ transfers_data \in GraphBatches
    /\ accounts = RingAccountIds
    /\ balance = [a \in RingAccountIds |-> InitialBalance]
    /\ lock = [a \in RingAccountIds |-> Free]
    /\ pc = [t \in Tasks |-> "queued"]
    /\ current_balance = [t \in Tasks |-> 0]
    /\ success = [t \in Tasks |-> FALSE]
    /\ error_message = [t \in Tasks |-> NoError]
    /\ calls = [t \in Tasks |-> 0]
    /\ transactions = <<>>
    /\ transactions_lock = Free
    /\ hpc = "wait"
    /\ idx = 1
    /\ acc = 0
    /\ initial_balance = Cardinality(RingAccountIds) * InitialBalance
    /\ final_balance = 0
    /\ pending_exc = FALSE
    /\ deadlocked = FALSE
    /\ successful = 0
    /\ failed = 0
    /\ metrics = NoMetrics
    /\ account_calls = <<>>
    /\ cpc = <<>>
    /\ observed = <<>>
    /\ call_error = <<>>

GraphNext == \E t \in 1..RingSize : TaskStep(t)

\* the pool threads are scheduled fairly
GraphFairness == \A t \in 1..RingSize : WF_vars(TaskStep(t))

GraphSpec == GraphInit /\ [][GraphNext]_vars /\ GraphFairness

\* ------------------------------------------- transfers called one at a time
\* one thread calls transfer for the requests of the batch in turn, on the
\* accounts of a fresh bank
SequentialInit ==
    /\ bank_class \in {Phase1, Phase2}
    /\ timeout_generous = TRUE
    /\ transfers_data \in Batches
    /\ accounts = AccountIds
    /\ balance = [a \in AccountIds |-> InitialBalance]
    /\ lock = [a \in AccountIds |-> Free]
    /\ pc = [t \in Tasks |-> "queued"]
    /\ current_balance = [t \in Tasks |-> 0]
    /\ success = [t \in Tasks |-> FALSE]
    /\ error_message = [t \in Tasks |-> NoError]
    /\ calls = [t \in Tasks |-> 0]
    /\ transactions = <<>>
    /\ transactions_lock = Free
    /\ hpc = "wait"
    /\ idx = 1
    /\ acc = 0
    /\ initial_balance = NumAccounts * InitialBalance
    /\ final_balance = 0
    /\ pending_exc = FALSE
    /\ deadlocked = FALSE
    /\ successful = 0
    /\ failed = 0
    /\ metrics = NoMetrics
    /\ account_calls = <<>>
    /\ cpc = <<>>
    /\ observed = <<>>
    /\ call_error = <<>>

\* a step of call t: the calls before it have returned and the calls after
\* it have not begun
SequentialCall(t) ==
    /\ \A u \in Tasks \ {t} : pc[u] \in {"queued", "done"}
    /\ TaskStep(t)

SequentialNext == \E t \in 1..MaxRequests : SequentialCall(t)

SequentialSpec == SequentialInit /\ [][SequentialNext]_vars

\* ------------------------------ get_total_balance beside running transfers
\* the transfers have been submitted to the pool and another thread is about
\* to call bank.get_total_balance(); hpc is "final_balance" during the call
\* and "metrics" once it has returned its sum in final_balance
AuditInit ==
    /\ bank_class \in {Phase1, Phase2}
    /\ timeout_generous = TRUE
    /\ transfers_data \in Batches
    /\ accounts = AccountIds
    /\ balance = [a \in AccountIds |-> InitialBalance]
    /\ lock = [a \in AccountIds |-> Free]
    /\ pc = [t \in Tasks |-> "queued"]
    /\ current_balance = [t \in Tasks |-> 0]
    /\ success = [t \in Tasks |-> FALSE]
    /\ error_message = [t \in Tasks |-> NoError]
    /\ calls = [t \in Tasks |-> 0]
    /\ transactions = <<>>
    /\ transactions_lock = Free
    /\ hpc = "final_balance"
    /\ idx = 1
    /\ acc = 0
    /\ initial_balance = NumAccounts * InitialBalance
    /\ final_balance = 0
    /\ pending_exc = FALSE
    /\ deadlocked = FALSE
    /\ successful = 0
    /\ failed = 0
    /\ metrics = NoMetrics
    /\ account_calls = <<>>
    /\ cpc = <<>>
    /\ observed = <<>>
    /\ call_error = <<>>

\* the pool threads run the transfers while the sum is being computed
AuditNext ==
    \/ \E t \in 1..MaxRequests : TaskStep(t)
    \/ FinalBalanceStep

AuditSpec == AuditInit /\ [][AuditNext]_vars

\* ============================================================ properties
\* the account whose lock task t is trying to acquire
Requested(t) ==
    IF pc[t] = "acquire_first" THEN FirstAccount(t) ELSE SecondAccount(t)

\* task t is blocked on a lock that task u holds
BlockedOn(t, u) ==
    /\ pc[t] \in {"acquire_first", "acquire_second"}
    /\ lock[Requested(t)] = u

\* a non-empty set of workers each blocked on a lock held by another one of
\* the set
WorkersDeadlocked ==
    \E S \in SUBSET Tasks :
        /\ S # {}
        /\ \A t \in S : \E u \in S : BlockedOn(t, u)

\* tasks t and u transfer in opposite directions between the same accounts
Opposing(t, u) ==
    /\ t # u
    /\ transfers_data[t].from = transfers_data[u].to
    /\ transfers_data[t].to = transfers_data[u].from
    /\ transfers_data[t].from # transfers_data[t].to

\* C1: under the Ordered discipline (Phase2Bank) no reachable state holds a
\* non-empty set of workers each blocked on a lock held by another worker of
\* the set, whatever the accounts and directions of the concurrent transfers.
C1_OrderedNoDeadlock ==
    bank_class = Phase2 => ~WorkersDeadlocked

\* two opposing Ordered transfers are in flight, one holding the lower
\* account's lock and the other one waiting for it
C1_Witness ==
    /\ bank_class = Phase2
    /\ \E t, u \in Tasks :
        /\ Opposing(t, u)
        /\ pc[t] = "acquire_first"
        /\ pc[u] = "acquire_second"
        /\ BlockedOn(t, u)

\* t holds the lock of its source and waits for its destination, which u
\* holds while waiting for t's source
CircularWait(t, u) ==
    /\ Opposing(t, u)
    /\ pc[t] = "acquire_second"
    /\ pc[u] = "acquire_second"
    /\ lock[transfers_data[t].from] = t
    /\ lock[transfers_data[u].from] = u

\* C2: under the Naive discipline (Phase1Bank), once two opposing transfers
\* A->B and B->A each hold their source lock and wait for the other's, they
\* stay in that state in every later step: neither transfer completes.
C2_NaiveCircularWaitPersists ==
    [][\A t, u \in Tasks :
          (bank_class = Phase1 /\ CircularWait(t, u)) => CircularWait(t, u)']_vars

\* the AB-BA state is reached under Phase1Bank
C2_Witness ==
    /\ bank_class = Phase1
    /\ \E t, u \in Tasks : CircularWait(t, u)

TotalBalance == SumOver(balance, accounts)

InitialTotal == Cardinality(accounts) * InitialBalance

\* C3: whenever no worker is between the debit and the credit of a transfer,
\* the sum of all balances equals the initial sum (either discipline); and
\* when run returns, the total it read before the batch equals the total it
\* read after it.
C3_BalanceConservation ==
    /\ (\A t \in Tasks : pc[t] # "credit") => TotalBalance = InitialTotal
    /\ hpc = "returned" =>
          /\ initial_balance = InitialTotal
          /\ final_balance = initial_balance

\* run has returned from a batch with a successful and a failed transfer
C3_Witness ==
    /\ hpc = "returned"
    /\ ~metrics.deadlocked
    /\ metrics.successful_transfers >= 1
    /\ metrics.failed_transfers >= 1
    /\ \E a \in accounts : balance[a] # InitialBalance

\* C4: when the batch wait has timed out while workers are blocked on
\* account locks in a circular wait, the main thread is not blocked: run can
\* go on to return the partial metrics with deadlocked = true, without
\* waiting for the blocked workers.
C4_TimeoutDoesNotBlockRun ==
    (pending_exc /\ WorkersDeadlocked) => ENABLED HarnessStep

\* C5: under the Ordered discipline with a timeout that does not expire
\* while workers make progress, and fair scheduling, run eventually returns
\* metrics with deadlocked = false and successful + failed equal to the
\* number of requests, for any batch.
C5_OrderedRunCompletes ==
    (bank_class = Phase2 /\ timeout_generous) =>
        <>(/\ hpc = "returned"
           /\ ~metrics.deadlocked
           /\ metrics.successful_transfers + metrics.failed_transfers
                = Len(transfers_data))

\* the same for the batches that hold at least one request
OrderedNonEmptyRunCompletes ==
    (bank_class = Phase2 /\ timeout_generous /\ transfers_data # <<>>) =>
        <>(/\ hpc = "returned"
           /\ ~metrics.deadlocked
           /\ metrics.successful_transfers + metrics.failed_transfers
                = Len(transfers_data))

\* positions of the records of task t in the log
RecordsOf(t) == {i \in 1..Len(transactions) : transactions[i].task = t}

\* C6: bank.transfer is entered exactly once for each request that has been
\* started, never again after a failure or a timeout; the log never holds
\* two records of one request, and a record is in the log only after the
\* transfer call of its request has returned or raised.
C6_OneCallOneRecord ==
    \A t \in Tasks :
        /\ calls[t] = (IF pc[t] \in {"pending", "queued"} THEN 0 ELSE 1)
        /\ Cardinality(RecordsOf(t)) <= 1
        /\ RecordsOf(t) # {} => pc[t] = "done" /\ calls[t] = 1
        /\ pc[t] \in {"acquire_first", "acquire_second", "check", "debit",
                      "credit", "release_second", "release_first"}
              => RecordsOf(t) = {}

\* run has returned after a timeout, the log holding a failed record
C6_Witness ==
    /\ hpc = "returned"
    /\ metrics.deadlocked
    /\ \E i \in 1..Len(transactions) : ~transactions[i].success
    /\ \A t \in Tasks : calls[t] = 1 /\ Cardinality(RecordsOf(t)) = 1

\* the request is rejected before locking: same account, amount not
\* positive, or an account the bank does not hold
Rejected(r) ==
    \/ r.from = r.to
    \/ r.amount <= 0
    \/ r.from \notin accounts
    \/ r.to \notin accounts

\* amount moved into account a by the successful records 1..n of the log
RECURSIVE NetFlow(_, _)
NetFlow(a, n) ==
    IF n = 0 THEN 0
    ELSE LET rec == transactions[n] IN
         NetFlow(a, n - 1)
           + (IF rec.success /\ rec.to_account_id = a THEN rec.amount ELSE 0)
           - (IF rec.success /\ rec.from_account_id = a THEN rec.amount ELSE 0)

\* C7: a transfer that fails (rejected before locking, or insufficient
\* funds) is recorded as a failed record carrying its error, and the batch
\* goes on: when run returns every request has its record, and the balances
\* are the initial ones changed by the successful records only.
C7_FailureRecordedBatchContinues ==
    /\ \A t \in Tasks : pc[t] = "done" =>
          \E i \in 1..Len(transactions) :
              /\ transactions[i].task = t
              /\ transactions[i].success = (error_message[t] = NoError)
              /\ transactions[i].error_message = error_message[t]
              /\ Rejected(transfers_data[t]) =>
                    /\ ~transactions[i].success
                    /\ transactions[i].error_message # NoError
    /\ hpc = "returned" =>
          /\ Len(transactions) = Len(transfers_data)
          /\ \A t \in Tasks : RecordsOf(t) # {}
          /\ \A a \in accounts :
                balance[a] = InitialBalance + NetFlow(a, Len(transactions))

\* run has returned a batch in which a request for an unknown account failed
\* and another transfer succeeded
C7_Witness ==
    /\ hpc = "returned"
    /\ \E i, j \in 1..Len(transactions) :
          /\ ~transactions[i].success
          /\ transactions[i].error_message = "Account not found"
          /\ transactions[j].success

LockPhase == {"acquire_first", "acquire_second", "check", "debit", "credit",
              "release_second", "release_first"}

\* C8: in both disciplines a transfer with from = to, with amount <= 0 or
\* naming an unknown account never tries to take a lock, never holds one, and
\* its steps change no lock and no balance.
C8_RejectedBeforeLocking ==
    [][\A t \in Tasks : Rejected(transfers_data[t]) =>
          /\ pc'[t] \notin LockPhase
          /\ \A a \in accounts : lock'[a] # t
          /\ pc'[t] # pc[t] => (lock' = lock /\ balance' = balance)]_vars

\* a transfer of amount 0 between two accounts of the bank has raised while
\* another worker holds a lock
C8_Witness ==
    \E t \in Tasks :
        /\ transfers_data[t].amount = 0
        /\ transfers_data[t].from # transfers_data[t].to
        /\ pc[t] = "record"
        /\ error_message[t] = "Transfer amount must be positive"
        /\ \E a \in accounts : lock[a] # Free

\* C9: in both disciplines the funds check is made with both locks held and
\* the transfer goes on to the debit exactly when the source balance read
\* there is >= amount; the debit leaves the source at balance - amount (0 for
\* the whole balance); a transfer refused for insufficient funds changes no
\* balance; and the task reports success exactly when no error was raised.
C9_SucceedsIffFundsSuffice ==
    [][\A t \in Tasks :
        LET r == transfers_data[t] IN
        /\ (pc[t] = "check" /\ pc'[t] # "check") =>
              /\ lock[r.from] = t /\ lock[r.to] = t
              /\ balance' = balance
              /\ current_balance'[t] = balance[r.from]
              /\ IF balance[r.from] >= r.amount
                 THEN pc'[t] = "debit" /\ error_message'[t] = NoError
                 ELSE pc'[t] = "release_second"
                      /\ error_message'[t] = InsufficientFunds
        /\ (pc[t] = "debit" /\ pc'[t] # "debit") =>
              /\ balance'[r.from] = current_balance[t] - r.amount
              /\ balance'[r.from] >= 0
              /\ r.amount = current_balance[t] => balance'[r.from] = 0
        /\ (error_message[t] = InsufficientFunds /\ pc'[t] # pc[t]) =>
              balance' = balance
        /\ (pc[t] = "record" /\ pc'[t] = "append") =>
              success'[t] = (error_message[t] = NoError)]_vars

\* one transfer of the whole source balance has succeeded, leaving 0, and
\* another one has been refused for insufficient funds
C9_Witness ==
    \E t, u \in Tasks :
        /\ pc[t] = "done" /\ success[t]
        /\ current_balance[t] = transfers_data[t].amount
        /\ pc[u] = "done" /\ ~success[u]
        /\ error_message[u] = InsufficientFunds
        /\ current_balance[u] < transfers_data[u].amount

\* C10: in both disciplines a worker whose transfer call has returned or
\* raised (or has not begun) holds no account lock.
C10_NoLockHeldAfterTransfer ==
    \A t \in Tasks : pc[t] \notin LockPhase => \A a \in accounts : lock[a] # t

\* a transfer has raised InsufficientFunds with both locks held and has left
\* the transfer call
C10_Witness ==
    \E t \in Tasks :
        /\ pc[t] = "record"
        /\ error_message[t] = InsufficientFunds
        /\ \A a \in accounts : lock[a] # t

\* the lower and the higher of the two account ids a request names
LowerId(r) == IF r.from <= r.to THEN r.from ELSE r.to
HigherId(r) == IF r.from <= r.to THEN r.to ELSE r.from

\* C11: under the Ordered discipline every transfer takes the lock of the
\* lower-id account first and that of the higher-id account second, whichever
\* of the two is the source: the first acquisition takes the lower-id lock
\* while the task holds none, the second takes the higher-id lock while the
\* task holds the lower one.
C11_OrderedLocksLowerIdFirst ==
    [][bank_class = Phase2 =>
        \A t \in Tasks :
          LET r == transfers_data[t] IN
          /\ (pc[t] = "acquire_first" /\ pc'[t] # "acquire_first") =>
                /\ \A a \in accounts : lock[a] # t
                /\ lock'[LowerId(r)] = t
                /\ lock'[HigherId(r)] # t
          /\ (pc[t] = "acquire_second" /\ pc'[t] # "acquire_second") =>
                /\ lock[LowerId(r)] = t
                /\ lock[HigherId(r)] # t
                /\ lock'[LowerId(r)] = t
                /\ lock'[HigherId(r)] = t]_vars

\* an Ordered transfer from the higher-id account to the lower-id one holds
\* the lock of its destination, the lower id, and not yet that of its source
C11_Witness ==
    /\ bank_class = Phase2
    /\ \E t \in Tasks :
          /\ transfers_data[t].from > transfers_data[t].to
          /\ pc[t] = "acquire_second"
          /\ lock[transfers_data[t].to] = t
          /\ lock[transfers_data[t].from] # t

\* the request names two distinct accounts of the bank
TwoAccounts(r) == r.from \in accounts /\ r.to \in accounts /\ r.from # r.to

\* C12: _get_ordered_accounts is symmetric: for the two distinct accounts A
\* and B of any request, order(A, B) and order(B, A) are the same pair, the
\* lower-id account first and the higher-id account second.
C12_OrderingSymmetric ==
    \A t \in Tasks :
        LET r == transfers_data[t] IN
        TwoAccounts(r) =>
            /\ GetOrderedAccounts(r.from, r.to) = GetOrderedAccounts(r.to, r.from)
            /\ GetOrderedAccounts(r.from, r.to) = <<LowerId(r), HigherId(r)>>
            /\ GetOrderedAccounts(r.to, r.from) = <<LowerId(r), HigherId(r)>>

\* two Ordered transfers between the same accounts in opposite directions
\* have both had their lock order computed
C12_Witness ==
    /\ bank_class = Phase2
    /\ \E t, u \in Tasks :
          /\ TwoAccounts(transfers_data[t])
          /\ transfers_data[t].from < transfers_data[t].to
          /\ transfers_data[u].from = transfers_data[t].to
          /\ transfers_data[u].to = transfers_data[t].from
          /\ pc[t] \in LockPhase
          /\ pc[u] \in LockPhase

\* C13: in both disciplines a successful transfer takes exactly amount from
\* the source balance and adds exactly amount to the destination balance, one
\* step each, and changes nothing else: every other balance is left as it
\* was by both steps, no other step of a transfer changes a balance, and the
\* set of accounts of the bank never changes.
C13_TransferFrame ==
    [][/\ accounts' = accounts
       /\ \A t \in Tasks :
            LET r == transfers_data[t] IN
            /\ (pc[t] = "debit" /\ pc'[t] # "debit") =>
                  /\ balance'[r.from] = balance[r.from] - r.amount
                  /\ \A a \in accounts \ {r.from} : balance'[a] = balance[a]
            /\ (pc[t] = "credit" /\ pc'[t] # "credit") =>
                  /\ balance'[r.to] = balance[r.to] + r.amount
                  /\ \A a \in accounts \ {r.to} : balance'[a] = balance[a]
                  /\ error_message'[t] = NoError
       /\ balance' # balance =>
            \E t \in Tasks : pc[t] \in {"debit", "credit"} /\ pc'[t] # pc[t]
       /\ DOMAIN balance' = accounts]_vars

\* the only transfer of a batch has succeeded: its source holds amount less
\* and its destination amount more than at the start
C13_Witness ==
    /\ Len(transfers_data) = 1
    /\ pc[1] = "done"
    /\ success[1]
    /\ transfers_data[1].amount > 0
    /\ balance[transfers_data[1].from] = InitialBalance - transfers_data[1].amount
    /\ balance[transfers_data[1].to] = InitialBalance + transfers_data[1].amount

\* balance every account was created with
Opening == initial_balance \div Cardinality(accounts)

\* every worker and every caller has finished
AllFinished ==
    /\ \A t \in Tasks : pc[t] = "done"
    /\ \A c \in Callers : cpc[c] = "done"

\* the operations of an execution: the transfers and the Account calls
Operations == ({"transfer"} \X Tasks) \cup ({"call"} \X Callers)

\* the sequential orders of the operations
Orders ==
    {f \in [1..Cardinality(Operations) -> Operations] :
        \A i, j \in DOMAIN f : f[i] = f[j] => i = j}

\* the operations f[i], f[i+1], ... executed one at a time from the balances
\* bal give each operation the outcome it had and end in the balances reached
RECURSIVE Replays(_, _, _)
Replays(f, i, bal) ==
    IF i > Len(f) THEN bal = balance
    ELSE IF f[i][1] = "transfer" THEN
        LET t == f[i][2]
            r == transfers_data[t] IN
        IF Rejected(r) THEN
            ~success[t] /\ Replays(f, i + 1, bal)
        ELSE IF bal[r.from] < r.amount THEN
            /\ ~success[t]
            /\ error_message[t] = InsufficientFunds
            /\ Replays(f, i + 1, bal)
        ELSE
            /\ success[t]
            /\ Replays(f, i + 1, [bal EXCEPT ![r.from] = @ - r.amount,
                                              ![r.to] = @ + r.amount])
    ELSE
        LET c == f[i][2]
            k == account_calls[c] IN
        IF k.op = "get_balance" THEN
            observed[c] = bal[k.account] /\ Replays(f, i + 1, bal)
        ELSE IF k.amount < 0 THEN
            call_error[c] \notin {NoError, InsufficientFunds}
              /\ Replays(f, i + 1, bal)
        ELSE IF k.op = "deposit" THEN
            /\ call_error[c] = NoError
            /\ Replays(f, i + 1, [bal EXCEPT ![k.account] = @ + k.amount])
        ELSE IF bal[k.account] < k.amount THEN
            call_error[c] = InsufficientFunds /\ Replays(f, i + 1, bal)
        ELSE
            /\ call_error[c] = NoError
            /\ Replays(f, i + 1, [bal EXCEPT ![k.account] = @ - k.amount])

\* C14: transfers of either discipline and Account.deposit / withdraw /
\* get_balance calls running concurrently behave as if executed one at a
\* time: when all of them have completed, some sequential order of the same
\* operations, started from the opening balances, gives every transfer and
\* every call the outcome it had (success or InsufficientFunds, value read)
\* and ends in the final balances.
C14_Linearizable ==
    AllFinished =>
        \E f \in Orders : Replays(f, 1, [a \in accounts |-> Opening])

\* a transfer out of an account, a deposit into it and a get_balance of it
\* have completed; the transfer succeeded and the balance read is neither
\* the opening nor the final one
C14_Witness ==
    /\ AllFinished
    /\ \E t \in Tasks : \E c, e \in Callers :
          /\ success[t]
          /\ account_calls[c].op = "get_balance"
          /\ account_calls[c].account = transfers_data[t].from
          /\ account_calls[e].op = "deposit"
          /\ account_calls[e].account = transfers_data[t].from
          /\ observed[c] # Opening
          /\ observed[c] # balance[account_calls[c].account]

\* the transfers f[i], f[i+1], ... executed one at a time from the balances
\* bal all succeed
RECURSIVE AllSucceed(_, _, _)
AllSucceed(f, i, bal) ==
    IF i > Len(f) THEN TRUE
    ELSE LET r == transfers_data[f[i][2]] IN
         /\ ~Rejected(r)
         /\ bal[r.from] >= r.amount
         /\ AllSucceed(f, i + 1, [bal EXCEPT ![r.from] = @ - r.amount,
                                             ![r.to] = @ + r.amount])

\* the balances are large enough for every transfer of the batch to succeed
\* in every order
EveryOrderSucceeds ==
    \A f \in Orders : AllSucceed(f, 1, [a \in accounts |-> InitialBalance])

\* sum of the amounts the batch moves into and out of account a
TransferredIn(a) ==
    SumOver([t \in Tasks |-> IF transfers_data[t].to = a
                              THEN transfers_data[t].amount ELSE 0], Tasks)
TransferredOut(a) ==
    SumOver([t \in Tasks |-> IF transfers_data[t].from = a
                              THEN transfers_data[t].amount ELSE 0], Tasks)

\* C15: when the balances are large enough for every transfer of a
\* concurrent batch to succeed in every order, every interleaving that
\* completes the batch has every transfer succeed and leaves each account at
\* its initial balance plus the amounts transferred in minus the amounts
\* transferred out.
C15_FinalBalancesOrderIndependent ==
    (AllFinished /\ EveryOrderSucceeds) =>
        /\ \A t \in Tasks : success[t]
        /\ \A a \in accounts :
              balance[a] = InitialBalance + TransferredIn(a) - TransferredOut(a)

\* a batch of at least two transfers that succeed in every order has
\* completed, one of them paying out of the account another one paid into
C15_Witness ==
    /\ Len(transfers_data) >= 2
    /\ account_calls = <<>>
    /\ AllFinished
    /\ EveryOrderSucceeds
    /\ \E t, u \in Tasks :
          /\ transfers_data[t].from = transfers_data[u].to
          /\ success[t] /\ success[u]

\* all the calls are op(amount) on account a, and no transfer runs
OnlyCalls(op, a, amount) ==
    /\ transfers_data = <<>>
    /\ account_calls # <<>>
    /\ \A c \in Callers :
          /\ account_calls[c].op = op
          /\ account_calls[c].account = a
          /\ account_calls[c].amount = amount

\* C16: no update of a single account is lost: N concurrent deposit(amount)
\* calls leave the balance at the opening balance plus N * amount, and N
\* concurrent withdraw(amount) calls on an account that holds exactly
\* N * amount all succeed and leave the balance at 0, in every interleaving.
C16_NoLostUpdates ==
    AllFinished =>
        \A a \in accounts : \A amount \in Amounts :
            LET n == Len(account_calls) IN
            /\ (amount > 0 /\ OnlyCalls("deposit", a, amount)) =>
                  /\ balance[a] = Opening + n * amount
                  /\ \A c \in Callers : call_error[c] = NoError
            /\ (amount > 0 /\ OnlyCalls("withdraw", a, amount)
                    /\ Opening = n * amount) =>
                  /\ balance[a] = 0
                  /\ \A c \in Callers : call_error[c] = NoError

\* as many withdrawals of the unit amount as there can be callers have all
\* completed on an account that held exactly their sum
C16_Witness ==
    /\ AllFinished
    /\ Len(account_calls) = MaxCalls
    /\ OnlyCalls("withdraw", 1, InitialBalance)
    /\ Opening = MaxCalls * InitialBalance
    /\ balance[1] = 0

\* C17: Account.withdraw(amount) fails with InsufficientFunds exactly when
\* the balance is below amount, and then leaves the balance unchanged;
\* otherwise it subtracts amount from the balance, so that withdrawing the
\* whole balance succeeds and leaves 0.
C17_WithdrawInsufficientFunds ==
    [][\A c \in Callers :
        LET k == account_calls[c]
            b == balance[k.account] IN
        k.op = "withdraw" =>
          /\ (cpc[c] = "read" /\ cpc'[c] # "read") =>
                /\ lock[k.account] = Holder(c)
                /\ balance' = balance
                /\ IF b < k.amount
                   THEN /\ call_error'[c] = InsufficientFunds
                        /\ cpc'[c] = "done"
                   ELSE /\ call_error'[c] = NoError
                        /\ cpc'[c] = "write"
          /\ (cpc[c] = "write" /\ cpc'[c] # "write") =>
                /\ b >= k.amount
                /\ balance'[k.account] = b - k.amount
                /\ k.amount = b => balance'[k.account] = 0
                /\ call_error'[c] = NoError
                /\ cpc'[c] = "done"
          /\ call_error[c] = InsufficientFunds =>
                /\ cpc[c] = "done"
                /\ observed[c] < k.amount]_vars

\* one withdrawal of the whole balance has succeeded and left 0, and another
\* one has then failed for insufficient funds
C17_Witness ==
    \E c, e \in Callers :
        /\ account_calls[c].op = "withdraw"
        /\ account_calls[e].op = "withdraw"
        /\ account_calls[c].account = account_calls[e].account
        /\ cpc[c] = "done" /\ cpc[e] = "done"
        /\ call_error[c] = NoError
        /\ observed[c] = account_calls[c].amount
        /\ call_error[e] = InsufficientFunds
        /\ balance[account_calls[c].account] = 0

\* C18: Account.deposit and Account.withdraw accept only strictly positive
\* amounts: a call with an amount that is not > 0, zero as well as negative,
\* raises an error, never takes the lock and leaves the balance unchanged.
C18_OnlyPositiveAmountsAccepted ==
    \A c \in Callers :
        LET k == account_calls[c] IN
        (k.op \in {"deposit", "withdraw"} /\ k.amount <= 0) =>
            /\ cpc[c] \in {"check", "done"}
            /\ cpc[c] = "done" => call_error[c] # NoError
            /\ lock[k.account] # Holder(c)

\* the same for the negative amounts only
NegativeAmountsRejected ==
    \A c \in Callers :
        LET k == account_calls[c] IN
        (k.op \in {"deposit", "withdraw"} /\ k.amount < 0) =>
            /\ cpc[c] \in {"check", "done"}
            /\ cpc[c] = "done" => call_error[c] # NoError
            /\ lock[k.account] # Holder(c)

\* the fraction q has the value n / d, or 0 when d = 0
RateIs(q, n, d) ==
    /\ q.den # 0
    /\ IF d = 0 THEN q.num = 0 ELSE q.num * d = n * q.den

\* number of records of the log with the given outcome
RecordsWith(outcome) ==
    Cardinality({i \in 1..Len(transactions) : transactions[i].success = outcome})

\* a Metrics value of a run without transfers
EmptyMetrics ==
    [total_transfers |-> 0, successful_transfers |-> 0,
     failed_transfers |-> 0, deadlocked |-> FALSE]

\* C19: the Metrics returned by run are a function of the collected
\* records: total_transfers is the number of requests of the batch,
\* successful_transfers the number of records with success outcome,
\* failed_transfers the number of records with failure outcome, and
\* success_rate is successful / total * 100, or 0 when total is 0.
C19_MetricsFromRecords ==
    /\ hpc = "returned" =>
          /\ metrics.total_transfers = Len(transfers_data)
          /\ metrics.successful_transfers = RecordsWith(TRUE)
          /\ metrics.failed_transfers = RecordsWith(FALSE)
          /\ RateIs(success_rate(metrics), RecordsWith(TRUE) * 100,
                    Len(transfers_data))
    /\ RateIs(success_rate(EmptyMetrics), 0, 0)

\* run has returned the metrics of a batch of which one transfer succeeded
\* and one failed
C19_Witness ==
    /\ hpc = "returned"
    /\ metrics.successful_transfers = 1
    /\ metrics.failed_transfers = 1
    /\ success_rate(metrics).num = 50 * success_rate(metrics).den

Appended == {t \in Tasks : pc[t] = "done"}

\* C21: concurrent appends to the shared log lose no update: the log holds
\* exactly one record for each task that has passed its append step and none
\* for the others, in every interleaving; a step only ever appends one
\* record at the end of the log, made by the task that holds the log lock,
\* and never removes or reorders the records already there.
C21_LogLosesNoAppend ==
    [][/\ Len(transactions) = Cardinality(Appended)
       /\ \A t \in Tasks :
            Cardinality(RecordsOf(t)) = (IF t \in Appended THEN 1 ELSE 0)
       /\ \A t \in Tasks : pc[t] = "append" <=> transactions_lock = t
       /\ \A i \in 1..Len(transactions) :
            /\ i <= Len(transactions')
            /\ transactions'[i] = transactions[i]
       /\ Len(transactions') <= Len(transactions) + 1
       /\ Len(transactions') = Len(transactions) + 1 =>
            LET t == transactions'[Len(transactions')].task IN
            /\ pc[t] = "append" /\ pc'[t] = "done"
            /\ transactions_lock = t /\ transactions_lock' = Free]_vars

\* one task waits for the log lock while another task holds it
C21_Witness ==
    \E t, u \in Tasks :
        /\ pc[t] = "append"
        /\ pc[u] = "record"
        /\ transactions_lock = t

\* the transfers in flight: started and not yet recorded in the log
InFlight == {t \in Tasks : pc[t] \notin {"pending", "queued", "done"}}

\* size of the worker pool of the batch
PoolSize == IF Len(transfers_data) < WorkerCap THEN Len(transfers_data) ELSE WorkerCap

\* C22: the worker pool is bounded: at any moment at most
\* min(len(requests), 20) transfers of the batch are in flight, between
\* starting their transfer and appending their record; a queued request is
\* started only while fewer than that are in flight, so the remaining
\* requests wait until a worker becomes free.
C22_PoolBounded ==
    [][/\ Cardinality(InFlight) <= PoolSize
       /\ \A t \in Tasks :
            (pc[t] = "queued" /\ pc'[t] # "queued") =>
                Cardinality(InFlight) < PoolSize]_vars

\* a batch of more than 20 requests has 20 transfers in flight while a
\* request is still queued
C22_Witness ==
    /\ Len(transfers_data) > WorkerCap
    /\ Cardinality(InFlight) = WorkerCap
    /\ \E t \in Tasks : pc[t] = "queued"

\* C23: under the Naive discipline every transfer acquires the lock of its
\* source account first and the lock of its destination account second,
\* whatever the numeric ids of the two: a transfer that is about to take its
\* first lock holds none, one that is about to take its second lock holds
\* the source lock only, and past that it holds both.
C23_NaiveLocksSourceFirst ==
    bank_class = Phase1 =>
        \A t \in Tasks :
            LET r == transfers_data[t] IN
            /\ pc[t] = "acquire_first" =>
                  lock[r.from] # t /\ lock[r.to] # t
            /\ pc[t] = "acquire_second" =>
                  lock[r.from] = t /\ lock[r.to] # t
            /\ pc[t] \in {"check", "debit", "credit", "release_second"} =>
                  lock[r.from] = t /\ lock[r.to] = t

\* a Naive transfer from the higher-id account to the lower-id one holds the
\* lock of its source, the higher id, and not yet that of its destination
C23_Witness ==
    /\ bank_class = Phase1
    /\ \E t \in Tasks :
          /\ transfers_data[t].from > transfers_data[t].to
          /\ pc[t] = "acquire_second"
          /\ lock[transfers_data[t].from] = t
          /\ lock[transfers_data[t].to] = Free

\* task t is taking the step that writes a balance
TransferWrites(t) == pc[t] \in {"debit", "credit"} /\ pc'[t] # pc[t]

\* caller c is taking the step that writes a balance
CallWrites(c) == cpc[c] = "write" /\ cpc'[c] # "write"

\* C24: in both disciplines a transfer writes a balance only while its
\* worker holds the locks of both accounts of the transfer, and deposit and
\* withdraw write one only while their caller holds the lock of that
\* account; no balance changes in a step whose writer does not hold the lock
\* of the account written.
C24_WritesUnderLock ==
    [][/\ \A t \in Tasks :
            pc[t] \in {"debit", "credit"} =>
                /\ lock[transfers_data[t].from] = t
                /\ lock[transfers_data[t].to] = t
       /\ \A c \in Callers :
            cpc[c] = "write" => lock[account_calls[c].account] = Holder(c)
       /\ \A a \in accounts :
            balance'[a] # balance[a] =>
                \/ \E t \in Tasks :
                      /\ TransferWrites(t)
                      /\ a \in {transfers_data[t].from, transfers_data[t].to}
                      /\ lock[a] = t
                \/ \E c \in Callers :
                      /\ CallWrites(c)
                      /\ a = account_calls[c].account
                      /\ lock[a] = Holder(c)]_vars

\* a deposit is about to store into an account whose lock a transfer is
\* waiting for
C24_Witness ==
    \E c \in Callers : \E t \in Tasks :
        /\ account_calls[c].op = "deposit"
        /\ cpc[c] = "write"
        /\ lock[account_calls[c].account] = Holder(c)
        /\ pc[t] \in {"acquire_first", "acquire_second"}
        /\ Requested(t) = account_calls[c].account

\* C25: in both disciplines the funds check reads the source balance only
\* once both locks have been acquired: Insufficient funds is raised only by
\* the step that leaves the check, taken with both locks held, and a
\* transfer that is still acquiring its locks has raised nothing, whatever
\* the balance of its source.
C25_FundsCheckedUnderBothLocks ==
    [][\A t \in Tasks :
        LET r == transfers_data[t] IN
        /\ (error_message'[t] = InsufficientFunds
               /\ error_message[t] # InsufficientFunds) =>
              /\ pc[t] = "check"
              /\ lock[r.from] = t /\ lock[r.to] = t
              /\ balance[r.from] < r.amount
        /\ pc[t] \in {"acquire_first", "acquire_second"} =>
              error_message[t] = NoError
        /\ (pc[t] = "acquire_first" /\ pc'[t] # "acquire_first") =>
              pc'[t] = "acquire_second"
        /\ (pc[t] = "acquire_second" /\ pc'[t] # "acquire_second") =>
              pc'[t] = "check"]_vars

\* under the Naive discipline a transfer whose source lacks the funds holds
\* the lock of its source and waits for its destination, in a circular wait
\* with an opposing transfer
C25_Witness ==
    /\ bank_class = Phase1
    /\ \E t, u \in Tasks :
          /\ CircularWait(t, u)
          /\ balance[transfers_data[t].from] < transfers_data[t].amount

\* the account a transfer locks first and the one it locks second: source
\* and destination under the Naive discipline, lower and higher id under the
\* Ordered one
FirstAcquired(t) ==
    IF bank_class = Phase1 THEN transfers_data[t].from
    ELSE LowerId(transfers_data[t])
SecondAcquired(t) ==
    IF bank_class = Phase1 THEN transfers_data[t].to
    ELSE HigherId(transfers_data[t])

\* C26: in both disciplines, on every exit path on which both locks were
\* acquired, after a success as well as after Insufficient funds, the lock
\* acquired second is released before the lock acquired first: a transfer
\* on its way out holds both locks or the first-acquired one only, never
\* the second-acquired one alone.
C26_SecondLockReleasedFirst ==
    \A t \in Tasks :
        /\ pc[t] = "release_second" =>
              lock[FirstAcquired(t)] = t /\ lock[SecondAcquired(t)] = t
        /\ pc[t] = "release_first" =>
              lock[FirstAcquired(t)] = t /\ lock[SecondAcquired(t)] # t
        /\ pc[t] \in {"record", "append", "done"} =>
              lock[FirstAcquired(t)] # t /\ lock[SecondAcquired(t)] # t

\* an Ordered transfer refused for insufficient funds has released the lock
\* of the higher id and still holds that of the lower id
C26_Witness ==
    /\ bank_class = Phase2
    /\ \E t \in Tasks :
          /\ pc[t] = "release_first"
          /\ error_message[t] = InsufficientFunds
          /\ lock[LowerId(transfers_data[t])] = t
          /\ lock[HigherId(transfers_data[t])] # t

\* the transfer call of task t has made its checks
Validated(t) == pc[t] \notin {"pending", "queued"}

\* C27: in both disciplines the same-account check comes first, then the
\* amount check, then the account lookup: transfer(x, x, amount) is refused
\* as a same-account transfer whatever the amount and whether or not x is a
\* known account; a transfer between different ids with amount <= 0 is
\* refused for its amount even when an id is unknown; and the lookup error
\* is raised only for from # to and amount > 0.
C27_ValidationPrecedence ==
    \A t \in Tasks :
        LET r == transfers_data[t] IN
        Validated(t) =>
            /\ r.from = r.to =>
                  error_message[t] = "Cannot transfer to the same account"
            /\ (r.from # r.to /\ r.amount <= 0) =>
                  error_message[t] = "Transfer amount must be positive"
            /\ error_message[t] = "Account not found" <=>
                  /\ r.from # r.to
                  /\ r.amount > 0
                  /\ r.from \notin accounts \/ r.to \notin accounts

\* a transfer from an unknown account to itself with an amount that is not
\* positive has been refused as a same-account transfer
C27_Witness ==
    \E t \in Tasks :
        /\ transfers_data[t].from = transfers_data[t].to
        /\ transfers_data[t].from \notin accounts
        /\ transfers_data[t].amount <= 0
        /\ pc[t] = "done"
        /\ error_message[t] = "Cannot transfer to the same account"

\* C28: the deadlocked flag is set only by the batch wait timing out. The
\* wait gives up only while some unit of work has not finished; when every
\* unit finishes before that, run goes on with no timeout pending and the
\* returned Metrics has deadlocked = false however many transfers failed;
\* deadlocked becomes true only from a timeout of the wait, and the Metrics
\* carries the flag as it is then.
C28_DeadlockedOnlyByTimeout ==
    [][/\ (pending_exc' /\ ~pending_exc) =>
            /\ hpc = "wait"
            /\ \E t \in Tasks : pc[t] # "done"
       /\ (hpc = "wait" /\ hpc' # "wait" /\ \A t \in Tasks : pc[t] = "done") =>
            ~pending_exc'
       /\ (hpc = "shutdown" /\ hpc' # "shutdown") => deadlocked' = pending_exc
       /\ hpc # "shutdown" => deadlocked' = deadlocked
       /\ hpc' = "returned" => metrics'.deadlocked = deadlocked']_vars

\* run has returned deadlocked = false for a batch all of whose transfers
\* failed, one of them for insufficient funds
C28_Witness ==
    /\ hpc = "returned"
    /\ ~metrics.deadlocked
    /\ metrics.failed_transfers = Len(transfers_data)
    /\ \E i \in 1..Len(transactions) :
          transactions[i].error_message = InsufficientFunds

\* C29: no account balance ever becomes negative: starting from balances
\* >= 0, every state reached by any interleaving of transfers of either
\* discipline and of Account.deposit / withdraw calls has every balance
\* >= 0.
C29_BalancesNeverNegative ==
    \A a \in accounts : balance[a] >= 0

\* a withdraw has emptied an account and a transfer out of that account has
\* then been refused for insufficient funds
C29_Witness ==
    \E t \in Tasks : \E c \in Callers :
        /\ account_calls[c].op = "withdraw"
        /\ account_calls[c].account = transfers_data[t].from
        /\ cpc[c] = "done"
        /\ call_error[c] = NoError
        /\ account_calls[c].amount > 0
        /\ error_message[t] = InsufficientFunds
        /\ balance[transfers_data[t].from] = 0

\* the workers that are at a position of Bank.transfer where they hold the
\* lock of account a
TransferHolders(a) ==
    {t \in Tasks :
        \/ a = FirstAcquired(t)
             /\ pc[t] \in {"acquire_second", "check", "debit", "credit",
                           "release_second", "release_first"}
        \/ a = SecondAcquired(t)
             /\ pc[t] \in {"check", "debit", "credit", "release_second"}}

\* the callers that are inside the with block of an Account method of a
CallHolders(a) ==
    {c \in Callers : account_calls[c].account = a /\ cpc[c] \in {"read", "write"}}

\* task t is between its balance check and its last balance write
InCriticalSection(t) == pc[t] \in {"check", "debit", "credit"}

\* tasks t and u transfer on a common account
ShareAccount(t, u) ==
    {transfers_data[t].from, transfers_data[t].to}
      \cap {transfers_data[u].from, transfers_data[u].to} # {}

\* C30: critical sections exclude each other per account: at most one
\* worker or caller is at a position where it holds the lock of a given
\* account, and the lock names it; so two transfers that share an account
\* are never both between their balance check and their last balance write.
\* (Transfers on disjoint pairs of accounts can be there together: the
\* witness.)
C30_MutualExclusion ==
    /\ \A a \in accounts :
          /\ Cardinality(TransferHolders(a)) + Cardinality(CallHolders(a)) <= 1
          /\ \A t \in TransferHolders(a) : lock[a] = t
          /\ \A c \in CallHolders(a) : lock[a] = Holder(c)
    /\ \A t, u \in Tasks :
          (t # u /\ ShareAccount(t, u)) =>
              ~(InCriticalSection(t) /\ InCriticalSection(u))

\* two transfers on disjoint pairs of accounts are both between their
\* balance check and their last balance write
C30_Witness ==
    \E t, u \in Tasks :
        /\ t # u
        /\ ~ShareAccount(t, u)
        /\ pc[t] = "debit"
        /\ pc[u] = "credit"

\* the directed graph of the batch: one edge from the source to the
\* destination of every transfer
TransferEdges == {<<transfers_data[t].from, transfers_data[t].to>> : t \in Tasks}

\* the accounts reached from the accounts of S along the edges
RECURSIVE ReachedFrom(_)
ReachedFrom(S) ==
    LET T == S \cup {e[2] : e \in {d \in TransferEdges : d[1] \in S}} IN
    IF T = S THEN S ELSE ReachedFrom(T)

\* no directed cycle: no edge leads back to its own source
Acyclic == \A e \in TransferEdges : e[1] \notin ReachedFrom({e[2]})

\* every transfer of the batch has returned and is recorded
AllDone == \A t \in Tasks : pc[t] = "done"

\* C31: under the Naive discipline (Phase1Bank), when the directed graph of
\* the (from, to) pairs of the concurrent transfers has no directed cycle,
\* no set of workers is ever blocked on each other, and under fair
\* scheduling every transfer eventually completes.
C31_AcyclicNaiveCompletes ==
    /\ []((bank_class = Phase1 /\ Acyclic) => ~WorkersDeadlocked)
    /\ (bank_class = Phase1 /\ Acyclic) => <>AllDone

\* Naive transfers of an acyclic batch hold and wait in a row: a worker
\* holds its source lock and waits for its destination lock, whose holder
\* waits for a third lock
C31_Witness ==
    /\ bank_class = Phase1
    /\ Acyclic
    /\ \E t, u, v \in Tasks :
          /\ pc[t] = "acquire_second"
          /\ BlockedOn(t, u)
          /\ pc[u] = "acquire_second"
          /\ BlockedOn(u, v)

\* the batch is the directed cycle 1 -> 2, 2 -> 3, ..., back to 1, over three
\* accounts or more
CycleBatch ==
    /\ Len(transfers_data) >= 3
    /\ \A t \in Tasks :
          /\ transfers_data[t].from = t
          /\ transfers_data[t].to = (t % Len(transfers_data)) + 1

\* every worker holds the lock of its source account and waits for the lock
\* of its destination account, which another worker holds
AllHoldAndWait ==
    \A t \in Tasks :
        /\ pc[t] = "acquire_second"
        /\ lock[transfers_data[t].from] = t
        /\ lock[transfers_data[t].to] \in Tasks \ {t}

\* C32: Naive deadlock is not limited to opposing pairs: once the Naive
\* transfers of a cycle 1 -> 2, 2 -> 3, 3 -> 1 each hold their source lock and
\* wait for their destination lock (the witness shows that they can), they
\* stay so in every later step; the same transfers under the Ordered
\* discipline all complete, under fair scheduling.
C32_NaiveCycleDeadlocksOrderedCompletes ==
    /\ [][(bank_class = Phase1 /\ CycleBatch /\ AllHoldAndWait)
            => AllHoldAndWait']_vars
    /\ (bank_class = Phase2 /\ CycleBatch) => <>AllDone

\* the three Naive transfers of the cycle each hold their source lock and
\* wait for the next one's
C32_Witness ==
    /\ bank_class = Phase1
    /\ CycleBatch
    /\ AllHoldAndWait

\* outcome of a transfer call r made on the balances bal, whatever the bank
SequentialOutcome(r, bal) ==
    IF r.from = r.to THEN "Cannot transfer to the same account"
    ELSE IF r.amount <= 0 THEN "Transfer amount must be positive"
    ELSE IF r.from \notin accounts \/ r.to \notin accounts THEN "Account not found"
    ELSE IF bal[r.from] < r.amount THEN "Insufficient funds"
    ELSE "None"

\* balances after the first n calls of the batch made one after the other
\* on the opening balances, whatever the bank
RECURSIVE SequentialBalances(_)
SequentialBalances(n) ==
    IF n = 0 THEN [a \in accounts |-> initial_balance \div Cardinality(accounts)]
    ELSE LET r == transfers_data[n]
             bal == SequentialBalances(n - 1) IN
         IF SequentialOutcome(r, bal) = "None"
         THEN [a \in accounts |->
                 IF a = r.from THEN bal[a] - r.amount
                 ELSE IF a = r.to THEN bal[a] + r.amount
                 ELSE bal[a]]
         ELSE bal

\* number of calls that have returned or raised
Returned == Cardinality({t \in Tasks : pc[t] = "done"})

\* C33: called one at a time on the same opening accounts, Phase1Bank and
\* Phase2Bank are observationally equivalent: under either bank every call
\* ends with the outcome (success or the error) and leaves the balances that
\* the sequence determines without regard to the bank, and no call ever
\* waits for a lock.
C33_SequentialEquivalence ==
    /\ \A t \in Tasks :
          pc[t] = "done" =>
              /\ error_message[t]
                    = SequentialOutcome(transfers_data[t], SequentialBalances(t - 1))
              /\ success[t] = (error_message[t] = "None")
    /\ (\A t \in Tasks : pc[t] \in {"queued", "done"}) =>
          balance = SequentialBalances(Returned)
    /\ \A t \in Tasks :
          /\ pc[t] = "acquire_first" => lock[FirstAcquired(t)] = Free
          /\ pc[t] = "acquire_second" => lock[SecondAcquired(t)] = Free
          /\ pc[t] = "record" => transactions_lock = Free

\* a sequence of two calls has ended under Phase1Bank, which locked the
\* accounts in the order opposite to Phase2Bank's: the first call moved the
\* whole balance and the second one was refused for insufficient funds
C33_Witness ==
    /\ bank_class = Phase1
    /\ \E t, u \in Tasks :
          /\ t < u
          /\ transfers_data[t].from > transfers_data[t].to
          /\ transfers_data[u] = transfers_data[t]
          /\ pc[t] = "done" /\ success[t]
          /\ pc[u] = "done" /\ error_message[u] = "Insufficient funds"
    /\ balance # [a \in accounts |-> initial_balance \div Cardinality(accounts)]

\* the accounts whose lock worker t holds
HeldBy(t) == {a \in accounts : lock[a] = t}

\* C34: no self-deadlock: in both disciplines a worker never asks for an
\* account lock that it already holds; the two locks of one transfer belong
\* to two distinct accounts, a transfer from an account to itself being
\* rejected before any lock is requested.
C34_NoSelfDeadlock ==
    \A t \in Tasks :
        /\ pc[t] \in {"acquire_first", "acquire_second", "check", "debit",
                      "credit", "release_second", "release_first"} =>
              /\ transfers_data[t].from # transfers_data[t].to
              /\ FirstAcquired(t) # SecondAcquired(t)
        /\ pc[t] = "acquire_first" => HeldBy(t) = {}
        /\ pc[t] = "acquire_second" =>
              /\ HeldBy(t) = {FirstAcquired(t)}
              /\ lock[SecondAcquired(t)] # t
        /\ transfers_data[t].from = transfers_data[t].to => HeldBy(t) = {}

\* a transfer from an account to itself has been rejected and recorded, and
\* another worker holds its first lock and asks for its second one
C34_Witness ==
    \E t, u \in Tasks :
        /\ transfers_data[u].from = transfers_data[u].to
        /\ pc[u] = "done"
        /\ error_message[u] = "Cannot transfer to the same account"
        /\ pc[t] = "acquire_second"
        /\ HeldBy(t) = {FirstAcquired(t)}

\* C35: Bank.get_total_balance returns the conserved total, the initial sum
\* of the balances, also when it is called while transfers are in flight on
\* other workers.
C35_TotalBalanceConservedInFlight ==
    hpc = "metrics" => final_balance = initial_balance

\* C36: whenever run returns a Metrics value, with deadlocked true or false,
\* every submitted unit of work has finished and appended its record:
\* successful_transfers + failed_transfers = total_transfers, and the log
\* holds as many records as there are requests.
C36_ReturnedMetricsComplete ==
    hpc = "returned" =>
        /\ metrics # NoMetrics
        /\ \A t \in Tasks : pc[t] = "done" /\ Cardinality(RecordsOf(t)) = 1
        /\ metrics.successful_transfers + metrics.failed_transfers
              = metrics.total_transfers
        /\ Len(transactions) = Len(transfers_data)

\* run has returned with deadlocked = true after a timeout on workers that
\* finished later, one transfer having succeeded and one having failed
C36_Witness ==
    /\ hpc = "returned"
    /\ metrics.deadlocked
    /\ metrics.successful_transfers >= 1
    /\ metrics.failed_transfers >= 1

\* the accounts whose lock a worker holds
HeldAccounts == {a \in accounts : lock[a] \in Tasks}

\* the highest id among a non-empty set of accounts
Highest(S) == CHOOSE a \in S : \A b \in S : b <= a

\* C37: under the Ordered discipline (Phase2Bank), in every reachable state a
\* worker that holds one account lock while waiting for another holds the
\* lock of an account with a strictly smaller id than the account it waits
\* for; so the worker holding the highest-id lock that is held is never
\* blocked.
C37_OrderedWaitsUpward ==
    bank_class = Phase2 =>
        /\ \A t \in Tasks :
              pc[t] = "acquire_second" =>
                  /\ HeldBy(t) # {}
                  /\ \A a \in HeldBy(t) : a < Requested(t)
        /\ HeldAccounts # {} =>
              LET h == lock[Highest(HeldAccounts)] IN
              /\ ~(\E u \in Tasks : BlockedOn(h, u))
              /\ CanStep(h)

\* Ordered workers wait in a row, each for a higher account: one holds a
\* lock and waits for a lock held by another one, which waits for a third
\* lock; the holder of the highest lock can go on
C37_Witness ==
    /\ bank_class = Phase2
    /\ \E t, u, v \in Tasks :
          /\ pc[t] = "acquire_second"
          /\ BlockedOn(t, u)
          /\ pc[u] = "acquire_second"
          /\ BlockedOn(u, v)
          /\ lock[Highest(HeldAccounts)] = v

====
